---------------------------- MODULE Spec2Model ----------------------------
(***************************************************************************)
(* A model of the Couchbase management client of gocbmgr (couchbase.go):   *)
(* topology reads, OTP node resolution, the node-removal / rebalance loop, *)
(* the readiness and health probes and the lazily cached Cluster / Info    *)
(* values.                                                                 *)
(*                                                                         *)
(* Strings the code splits or compares are sequences of one-character      *)
(* strings, so that stripPort is computed as strings.Split computes it.    *)
(* Errors are sequences of message layers; the nil error is <<>>.          *)
(***************************************************************************)
EXTENDS Integers, Sequences, FiniteSets, TLC

VARIABLES
    \* ---- GetOTPNodes applied to an address list and to a port variant ----
    rsAddrs,            \* the address list L
    rsVariant,          \* L with port suffixes added or stripped
    rsNodes,            \* the node list both resolutions read
    rsOut,              \* GetOTPNodes result for rsAddrs     (or NotRun)
    rsOutVariant        \* GetOTPNodes result for rsVariant   (or NotRun)

VARIABLES
    \* ---- RemoveNodes ----
    rnPc,               \* "idle", "triggering", "polling", "returned", "exited"
    removeNodes,        \* the argument of the running (or last) call
    ejectNodes,         \* resolved handles to eject
    allNodes,           \* resolved handles of every node
    sleep,              \* what the next loop iteration sleeps, in milliseconds
    nodeInClusterCount, \* the still-present counter
    rnErr,              \* the error RemoveNodes returned (NoErr is nil)
    \* ---- what an observer of RemoveNodes sees ----
    resolved,           \* outcome of the Nodes() call made during resolution
    rebalanceReq,       \* the rebalance trigger issued by this call, or NoReq
    iter,               \* outcome of the last loop iteration, exact comparisons
    streak,             \* consecutive still-present observations so far
    again,              \* this call repeats a call that returned nil
    sent                \* the requests this call has issued so far

VARIABLES
    \* ---- IsReady / Healthy ----
    pbPc,               \* "idle", "select", "returned"
    pbKind,             \* "IsReady" or "Healthy" ("none" before the call)
    timeout,            \* the timeout argument, in time units
    now,                \* time since the call started, in time units
    timer,              \* when the time.After of this loop iteration fires
    nextTick,           \* when the ticker fires next
    tickReady,          \* a tick waits in the ticker's channel
    pbErr,              \* the error returned (NoErr is nil)
    \* ---- what an observer of the probe loop sees ----
    lastProbe,          \* the response to the last probe, or NoProbe
    probeAt             \* when the last probe was issued (-1: never)

probeVars == <<pbPc, pbKind, timeout, now, timer, nextTick, tickReady, pbErr,
               lastProbe, probeAt>>

VARIABLES
    \* ---- the client handle's caches ----
    cluster,            \* c.cluster: Nil or <<the cached Cluster>>
    info,               \* c.info: Nil or <<the cached Node>>
    \* ---- what an observer of Cluster() / Info() sees ----
    call,               \* the last call: which, whether it issued a request, its results
    \* ---- one Nodes() call against a remote system with scripted answers ----
    ndStream,           \* the answers the remote system gives to successive requests
    ndOut,              \* the outcome of the call and the number of requests it made
    \* ---- two goroutines calling Cluster() (or Info()) on one handle ----
    gOp,                \* the method both call: "Cluster", "Info", or "none" before
    gPc,                \* per caller: where it stands in the method
    gLocal,             \* per caller: the value its own read decoded
    gRet,               \* per caller: what the method returned to it
    gReads              \* the number of remote reads issued for the handle

cacheVars == <<cluster, info, call>>

nodesVars == <<ndStream, ndOut>>

raceVars == <<gOp, gPc, gLocal, gRet, gReads>>

resolveVars == <<rsAddrs, rsVariant, rsNodes, rsOut, rsOutVariant>>

removeVars == <<rnPc, removeNodes, ejectNodes, allNodes, sleep, nodeInClusterCount,
                rnErr, resolved, rebalanceReq, iter, streak, again, sent>>

vars == <<rsAddrs, rsVariant, rsNodes, rsOut, rsOutVariant,
          rnPc, removeNodes, ejectNodes, allNodes, sleep, nodeInClusterCount,
          rnErr, resolved, rebalanceReq, iter, streak, again, sent,
          pbPc, pbKind, timeout, now, timer, nextTick, tickReady, pbErr,
          lastProbe, probeAt,
          cluster, info, call,
          ndStream, ndOut,
          gOp, gPc, gLocal, gRet, gReads>>

-----------------------------------------------------------------------------
(* Bounds of the model *)

\* longest address list handed to RemoveNodes / GetOTPNodes
MaxAddrs == 2

\* time units per second in the probe loops
Resolution == 2

\* longest timeout handed to IsReady / Healthy, in time units
MaxTimeout == 5

\* longest time one probe takes, in time units
MaxProbeDur == 1

\* the probe loops are followed up to this time
MaxNow == 8

-----------------------------------------------------------------------------
(* Strings *)

Colon == ":"

\* index of the first ":" of str, or Len(str) + 1 when there is none
RECURSIVE FirstColonFrom(_, _)
FirstColonFrom(str, i) ==
    IF i > Len(str) THEN i
    ELSE IF str[i] = Colon THEN i
    ELSE FirstColonFrom(str, i + 1)

\* strings.Split(str, ":")[0]
stripPort(str) == SubSeq(str, 1, FirstColonFrom(str, 1) - 1)

\* a comparison that strips the port of the item only
strSliceContainsItemOnly(slice, item) ==
    \E i \in 1..Len(slice) : stripPort(item) = slice[i]

strSliceContains(slice, item) ==
    \E i \in 1..Len(slice) : stripPort(item) = stripPort(slice[i])

\* the nil error and the empty string
NoErr == <<>>
EmptyStr == <<>>

-----------------------------------------------------------------------------
(* Data: Node, the pools the remote system may report, HTTP responses *)

Node(hostname, otpNode, thisNode, status) ==
    [Hostname |-> hostname, OTPNode |-> otpNode, ThisNode |-> thisNode,
     Status |-> status]

HostA  == <<"a">>
HostA1 == <<"a", ":", "1">>
HostA2 == <<"a", ":", "2">>
HostB  == <<"b">>
HostZ  == <<"z">>

OtpX  == <<"x">>
OtpY  == <<"y">>
OtpX1 == <<"x", ":", "1">>
OtpX2 == <<"x", ":", "2">>

\* node lists (Pool.Nodes) the membership endpoint may report
Pools ==
    { <<Node(HostA, OtpX, TRUE, "healthy"), Node(HostB, OtpY, FALSE, "healthy")>>,
      <<Node(HostA1, OtpX, TRUE, "healthy"), Node(HostA2, OtpY, FALSE, "healthy")>>,
      <<Node(HostA, OtpX, TRUE, "healthy")>>,
      <<Node(HostB, OtpY, TRUE, "warmup"), Node(HostA, OtpX, FALSE, "healthy")>>,
      <<Node(HostA, OtpX, TRUE, "warmup"), Node(HostB, EmptyStr, FALSE, "healthy")>>,
      <<Node(HostA, OtpX, FALSE, "healthy"), Node(HostB, OtpY, FALSE, "healthy")>>,
      <<Node(HostA, OtpX1, FALSE, "unhealthy"), Node(HostB, OtpX2, TRUE, "healthy")>>,
      <<>> }

\* addresses a caller may ask to remove
Addrs == {HostA, HostA1, HostB, HostZ}

RECURSIVE SeqsUpTo(_, _)
SeqsUpTo(S, n) ==
    IF n = 0 THEN {<<>>}
    ELSE LET shorter == SeqsUpTo(S, n - 1)
         IN  shorter \cup {Append(s, x) : s \in {t \in shorter : Len(t) = n - 1}, x \in S}

AddrLists == SeqsUpTo(Addrs, MaxAddrs)

\* an HTTP exchange: the transport failed, or a status code and a body came back
TransportFail == [ok |-> FALSE, StatusCode |-> 0, body |-> [kind |-> "none"]]
Resp(code, body) == [ok |-> TRUE, StatusCode |-> code, body |-> body]
Garbage == [kind |-> "garbage"]
Unreadable == [kind |-> "unreadable"]
PoolBody(nodes) == [kind |-> "pool", nodes |-> nodes]

FailedResponses ==
    {TransportFail, Resp(401, Garbage), Resp(404, Garbage), Resp(500, Garbage),
     Resp(200, Garbage), Resp(200, Unreadable)}

NodesResponses == FailedResponses \cup {Resp(200, PoolBody(p)) : p \in Pools}

-----------------------------------------------------------------------------
(* Request, CheckStatusCode, Nodes *)

\* Request: a transport error and a 401 both come back as an error
Request(resp) ==
    IF ~resp.ok THEN <<"Error while connecting with auth">>
    ELSE IF resp.StatusCode = 401 THEN <<"Error authenticating. Check user/password">>
    ELSE NoErr

CheckStatusCode(resp, validStatusCodes) ==
    IF resp.StatusCode \in validStatusCodes THEN NoErr
    ELSE <<"expected statusCode">>

ErrorNodeUninitialized == <<"ErrorNodeUninitialized">>

\* Nodes() on the response of its one GET /pools/default
Nodes(resp) ==
    IF Request(resp) # NoErr
        THEN [nodes |-> <<>>, err |-> <<"Error while connecting">> \o Request(resp)]
    ELSE IF resp.StatusCode = 404
        THEN [nodes |-> <<>>, err |-> ErrorNodeUninitialized]
    ELSE IF CheckStatusCode(resp, {200}) # NoErr
        THEN [nodes |-> <<>>, err |-> CheckStatusCode(resp, {200})]
    ELSE IF resp.body.kind = "unreadable"
        THEN [nodes |-> <<>>, err |-> <<"read body">>]
    ELSE IF resp.body.kind # "pool"
        THEN [nodes |-> <<>>, err |-> <<"json">>]
    ELSE [nodes |-> resp.body.nodes, err |-> NoErr]

-----------------------------------------------------------------------------
(* GetOTPNodes *)

\* a loop that leaves the ejected handles out of outAllNodes
RECURSIVE GetOTPNodesLoopSplit(_, _, _, _)
GetOTPNodesLoopSplit(nodes, eject, i, out) ==
    IF i > Len(nodes) THEN out
    ELSE IF nodes[i].OTPNode = EmptyStr
        THEN [out EXCEPT !.err = <<"Unable to get OTP name">>]
    ELSE GetOTPNodesLoopSplit(nodes, eject, i + 1,
            IF strSliceContains(eject, nodes[i].Hostname)
                THEN [out EXCEPT !.outEjectNodes = Append(@, nodes[i].OTPNode)]
                ELSE [out EXCEPT !.outAllNodes = Append(@, nodes[i].OTPNode)])

\* a loop that skips a node without handle instead of failing
RECURSIVE GetOTPNodesLoopSkip(_, _, _, _)
GetOTPNodesLoopSkip(nodes, eject, i, out) ==
    IF i > Len(nodes) THEN out
    ELSE IF nodes[i].OTPNode = EmptyStr
        THEN GetOTPNodesLoopSkip(nodes, eject, i + 1, out)
    ELSE GetOTPNodesLoopSkip(nodes, eject, i + 1,
            [outEjectNodes |->
                IF strSliceContains(eject, nodes[i].Hostname)
                    THEN Append(out.outEjectNodes, nodes[i].OTPNode)
                    ELSE out.outEjectNodes,
             outAllNodes |-> Append(out.outAllNodes, nodes[i].OTPNode),
             err |-> NoErr])

\* the loop of GetOTPNodes from node i on; out carries outEjectNodes,
\* outAllNodes and err as the named results hold them
RECURSIVE GetOTPNodesLoop(_, _, _, _)
GetOTPNodesLoop(nodes, eject, i, out) ==
    IF i > Len(nodes) THEN out
    ELSE IF nodes[i].OTPNode = EmptyStr
        THEN [out EXCEPT !.err = <<"Unable to get OTP name">>]
    ELSE GetOTPNodesLoop(nodes, eject, i + 1,
            [outEjectNodes |->
                IF strSliceContains(eject, nodes[i].Hostname)
                    THEN Append(out.outEjectNodes, nodes[i].OTPNode)
                    ELSE out.outEjectNodes,
             outAllNodes |-> Append(out.outAllNodes, nodes[i].OTPNode),
             err |-> NoErr])

\* GetOTPNodes(eject, [], []) given the outcome of its Nodes() call
GetOTPNodes(read, eject) ==
    IF read.err # NoErr
        THEN [outEjectNodes |-> <<>>, outAllNodes |-> <<>>, err |-> read.err]
    ELSE GetOTPNodesLoop(read.nodes, eject, 1,
            [outEjectNodes |-> <<>>, outAllNodes |-> <<>>, err |-> NoErr])

-----------------------------------------------------------------------------
(* Resolution of an address list and of a port variant of it *)

NotRun == [outEjectNodes |-> <<>>, outAllNodes |-> <<>>, err |-> <<"not run">>]

Ports == {"1", "2"}

\* b is a with a port suffix added, stripped, or left alone
PortVariant(a, b) ==
    \/ b = a
    \/ \E p \in Ports : b = a \o <<Colon, p>>
    \/ \E p \in Ports : a = b \o <<Colon, p>>

\* every address that is some address of Addrs with or without a port suffix
VariantAddrs == Addrs \cup {a \o <<Colon, p>> : a \in Addrs, p \in Ports}
                      \cup {HostA, HostB, HostZ}

ListVariant(L, M) ==
    /\ Len(M) = Len(L)
    /\ \A i \in 1..Len(L) : PortVariant(L[i], M[i])

ResolveIdle ==
    /\ rsAddrs = <<>>
    /\ rsVariant = <<>>
    /\ rsNodes = <<>>
    /\ rsOut = NotRun
    /\ rsOutVariant = NotRun

ResolveDraw ==
    /\ rsAddrs \in AddrLists
    /\ rsVariant \in {M \in SeqsUpTo(VariantAddrs, Len(rsAddrs)) : ListVariant(rsAddrs, M)}
    /\ rsNodes \in Pools
    /\ rsOut = NotRun
    /\ rsOutVariant = NotRun

ResolveAddrs ==
    /\ rsOut = NotRun
    /\ rsOut' = GetOTPNodes([nodes |-> rsNodes, err |-> NoErr], rsAddrs)
    /\ UNCHANGED <<rsAddrs, rsVariant, rsNodes, rsOutVariant>>
    /\ UNCHANGED removeVars
    /\ UNCHANGED probeVars
    /\ UNCHANGED cacheVars
    /\ UNCHANGED nodesVars
    /\ UNCHANGED raceVars

ResolveVariant ==
    /\ rsOutVariant = NotRun
    /\ rsOutVariant' = GetOTPNodes([nodes |-> rsNodes, err |-> NoErr], rsVariant)
    /\ UNCHANGED <<rsAddrs, rsVariant, rsNodes, rsOut>>
    /\ UNCHANGED removeVars
    /\ UNCHANGED probeVars
    /\ UNCHANGED cacheVars
    /\ UNCHANGED nodesVars
    /\ UNCHANGED raceVars

ResolveNext == ResolveAddrs \/ ResolveVariant


-----------------------------------------------------------------------------
(* Rebalance and RemoveNodes *)

\* time.Second, in the model's unit of one millisecond
Second == 1000

\* var minSleep = time.Second * 2
MinSleepSeconds == 2
minSleep == Second * MinSleepSeconds

\* sleep = 500 * time.Millisecond
StatusBackoff == 500

\* if nodeInClusterCount > 10
StuckLimit == 10

Comma == ","

\* strings.Join(elems, ",")
RECURSIVE Join(_)
Join(elems) ==
    IF Len(elems) = 0 THEN EmptyStr
    ELSE IF Len(elems) = 1 THEN elems[1]
    ELSE elems[1] \o <<Comma>> \o Join(Tail(elems))

\* the form Rebalance posts to /controller/rebalance
RebalanceForm(knownNodes, ejectedNodes) ==
    [ejectedNodes |-> Join(ejectedNodes), knownNodes |-> Join(knownNodes)]

\* a Rebalance that does not look at the status of the answer
RebalanceIgnoreStatus(resp) == Request(resp)

\* Rebalance, given the response to its POST
Rebalance(resp) ==
    IF Request(resp) # NoErr THEN Request(resp)
    ELSE CheckStatusCode(resp, {200})

RebalanceResponses ==
    {TransportFail, Resp(401, Garbage), Resp(400, Garbage), Resp(200, Garbage)}

\* what RebalanceStatus() may return: an error, or a recommended refresh period
\* (in tenths of a second) and the handles still rebalancing
StatusPeriods == {0, 30}
StatusNodeLists == {<<>>, <<OtpX>>, <<OtpY>>, <<OtpX2>>, <<OtpY, OtpX>>}
StatusResults ==
    {[err |-> <<"rebalance status">>, RecommendedRefreshPeriod |-> 0, Nodes |-> <<>>]}
    \cup {[err |-> NoErr, RecommendedRefreshPeriod |-> p, Nodes |-> n] :
            p \in StatusPeriods, n \in StatusNodeLists}

\* time.Duration(int64(period * float64(time.Second))), period in tenths of a second
PeriodToDuration(period) == (period * Second) \div 10

\* a sleep that takes the recommended period as it comes
NextSleepNoFloor(status) == PeriodToDuration(status.RecommendedRefreshPeriod)

\* lines 151-154: the recommended period, floored at minSleep
NextSleep(status) ==
    IF PeriodToDuration(status.RecommendedRefreshPeriod) < minSleep
        THEN minSleep
        ELSE PeriodToDuration(status.RecommendedRefreshPeriod)

\* a test that takes any handle the status lists for an ejected one
NodeInRebalanceAny(status, eject) == status.Nodes # <<>>

\* for _, node := range ejectNodes { if strSliceContains(status.Nodes, node) ... }
NodeInRebalance(status, eject) ==
    \E i \in 1..Len(eject) : strSliceContains(status.Nodes, eject[i])

\* a membership test that looks for the ejected handles among the hostnames
NodeInClusterByHostname(nodes, eject) ==
    \E i \in 1..Len(nodes) : strSliceContains(eject, nodes[i].Hostname)

\* for _, node := range nodes { if strSliceContains(ejectNodes, node.OTPNode) ... }
NodeInCluster(nodes, eject) ==
    \E i \in 1..Len(nodes) : strSliceContains(eject, nodes[i].OTPNode)

\* the stuck-removal test made before the counter is incremented
StuckDetected(count) == count > StuckLimit

NoReq == [issued |-> FALSE, knownNodes |-> <<>>, ejectedNodes |-> <<>>,
          data |-> RebalanceForm(<<>>, <<>>)]

NoRead == [nodes |-> <<>>, err |-> <<"no read">>]

\* no iteration yet; polled tells that a status poll was issued, period is the
\* RecommendedRefreshPeriod of a status poll that succeeded, listed tells that
\* it reported some handle as rebalancing
NoIter == [polled |-> FALSE, statusOk |-> FALSE, period |-> 0, listed |-> FALSE,
           active |-> FALSE, readIssued |-> FALSE, readOk |-> FALSE,
           present |-> FALSE]

\* a request counter that stops counting at 2
CountUp(n) == IF n < 2 THEN n + 1 ELSE n

\* the answer to a request, as far as its sender tells answers apart
Answer(resp) == [ok |-> resp.ok, StatusCode |-> resp.StatusCode]

\* nothing sent: triggers counts the POSTs to /controller/rebalance, answer is
\* the answer to the last of them, reads counts the GETs of /pools/default
NoneSent == [triggers |-> 0, answer |-> [ok |-> FALSE, StatusCode |-> 0], reads |-> 0]

\* exact (not port-stripped) membership, as an observer of the exchange sees it
HandleActive(status, eject) ==
    \E i \in 1..Len(eject), j \in 1..Len(status.Nodes) : status.Nodes[j] = eject[i]

HandlePresent(nodes, eject) ==
    \E i \in 1..Len(eject), j \in 1..Len(nodes) : nodes[j].OTPNode = eject[i]

\* a count check that only rejects surplus handles
CountMismatchSurplusOnly(out, addrs) == Len(out.outEjectNodes) > Len(addrs)

\* if len(ejectNodes) != len(removeNodes)
CountMismatch(out, addrs) == Len(out.outEjectNodes) # Len(addrs)

IncompleteMatch == <<"Some nodes specified to be removed are not part of the cluster">>

RemoveIdle ==
    /\ rnPc = "idle"
    /\ removeNodes = <<>>
    /\ ejectNodes = <<>>
    /\ allNodes = <<>>
    /\ sleep = 0
    /\ nodeInClusterCount = 0
    /\ rnErr = NoErr
    /\ resolved = NoRead
    /\ rebalanceReq = NoReq
    /\ iter = NoIter
    /\ streak = 0
    /\ again = FALSE
    /\ sent = NoneSent

\* lines 125-132: resolution and the count check
Resolving(addrs, resp, repeat) ==
    LET out == GetOTPNodes(Nodes(resp), addrs) IN
    /\ removeNodes' = addrs
    /\ again' = repeat
    /\ resolved' = Nodes(resp)
    /\ sent' = [NoneSent EXCEPT !.reads = 1]
    /\ rebalanceReq' = NoReq
    /\ iter' = NoIter
    /\ streak' = 0
    /\ sleep' = 0
    /\ nodeInClusterCount' = 0
    /\ IF out.err # NoErr THEN
            /\ rnPc' = "returned"
            /\ rnErr' = out.err
            /\ ejectNodes' = <<>>
            /\ allNodes' = <<>>
       ELSE IF CountMismatch(out, addrs) THEN
            /\ rnPc' = "returned"
            /\ rnErr' = IncompleteMatch
            /\ ejectNodes' = out.outEjectNodes
            /\ allNodes' = out.outAllNodes
       ELSE
            /\ rnPc' = "triggering"
            /\ rnErr' = NoErr
            /\ ejectNodes' = out.outEjectNodes
            /\ allNodes' = out.outAllNodes
    /\ UNCHANGED resolveVars
    /\ UNCHANGED probeVars
    /\ UNCHANGED cacheVars
    /\ UNCHANGED nodesVars
    /\ UNCHANGED raceVars

\* a caller invokes RemoveNodes(addrs); a call keeps nothing of an earlier one,
\* so one call and its repetition stand for every sequence of calls
RemoveNodesCall ==
    /\ rnPc = "idle"
    /\ \E addrs \in AddrLists, resp \in NodesResponses : Resolving(addrs, resp, FALSE)

\* a caller whose RemoveNodes(addrs) returned nil invokes it again with the same addrs
RemoveNodesAgain ==
    /\ rnPc = "returned"
    /\ rnErr = NoErr
    /\ \E resp \in NodesResponses : Resolving(removeNodes, resp, TRUE)

\* lines 134-141: the rebalance trigger
Triggering ==
    /\ rnPc = "triggering"
    /\ \E resp \in RebalanceResponses :
        /\ rebalanceReq' = [issued |-> TRUE, knownNodes |-> allNodes,
                            ejectedNodes |-> ejectNodes,
                            data |-> RebalanceForm(allNodes, ejectNodes)]
        /\ sent' = [sent EXCEPT !.triggers = CountUp(@), !.answer = Answer(resp)]
        /\ IF Rebalance(resp) # NoErr
              THEN /\ rnPc' = "returned"
                   /\ rnErr' = Rebalance(resp)
              ELSE /\ rnPc' = "polling"
                   /\ rnErr' = NoErr
    /\ sleep' = 0
    /\ nodeInClusterCount' = 0
    /\ UNCHANGED <<removeNodes, ejectNodes, allNodes, resolved, iter, streak, again>>
    /\ UNCHANGED resolveVars
    /\ UNCHANGED probeVars
    /\ UNCHANGED cacheVars
    /\ UNCHANGED nodesVars
    /\ UNCHANGED raceVars

\* a status poll whose listing of an ejected handle does not stop the iteration
StatusOutcomeNoContinue(status, eject) ==
    IF status.err # NoErr THEN "failed" ELSE "quiet"

\* lines 145-166: what the status poll of an iteration decides
StatusOutcome(status, eject) ==
    IF status.err # NoErr THEN "failed"
    ELSE IF NodeInRebalance(status, eject) THEN "rebalancing"
    ELSE "quiet"

\* a failed topology read that is not followed by continue: its empty node
\* list holds no ejected handle
ReadOutcomeNoContinue(read, eject, count) ==
    IF read.err = NoErr /\ NodeInCluster(read.nodes, eject)
        THEN IF StuckDetected(count) THEN "stuck" ELSE "present"
    ELSE "gone"

\* lines 168-192: what the topology read of an iteration decides
ReadOutcome(read, eject, count) ==
    IF read.err # NoErr THEN "failed"
    ELSE IF NodeInCluster(read.nodes, eject)
        THEN IF StuckDetected(count) THEN "stuck" ELSE "present"
    ELSE "gone"

\* lines 142-193: one iteration of the polling loop
Polling ==
    /\ rnPc = "polling"
    /\ \E status \in StatusResults :
        IF StatusOutcome(status, ejectNodes) = "failed" THEN
            \* failed status poll: fixed backoff, continue
            /\ sleep' = StatusBackoff
            /\ iter' = [NoIter EXCEPT !.polled = TRUE]
            /\ streak' = 0
            /\ sent' = sent
            /\ UNCHANGED <<rnPc, rnErr, nodeInClusterCount>>
        ELSE IF StatusOutcome(status, ejectNodes) = "rebalancing" THEN
            /\ sleep' = NextSleep(status)
            /\ nodeInClusterCount' = 0
            /\ iter' = [NoIter EXCEPT !.polled = TRUE, !.statusOk = TRUE,
                                      !.period = status.RecommendedRefreshPeriod,
                                      !.listed = status.Nodes # <<>>,
                                      !.active = HandleActive(status, ejectNodes)]
            /\ streak' = 0
            /\ sent' = sent
            /\ UNCHANGED <<rnPc, rnErr>>
        ELSE \E resp \in NodesResponses :
            LET read == Nodes(resp)
                outcome == ReadOutcome(read, ejectNodes, nodeInClusterCount)
                seen == [polled |-> TRUE,
                         statusOk |-> TRUE,
                         period |-> status.RecommendedRefreshPeriod,
                         listed |-> status.Nodes # <<>>,
                         active |-> HandleActive(status, ejectNodes),
                         readIssued |-> TRUE,
                         readOk |-> read.err = NoErr,
                         present |-> read.err = NoErr
                                     /\ HandlePresent(read.nodes, ejectNodes)]
            IN
            /\ sleep' = NextSleep(status)
            /\ iter' = seen
            /\ sent' = [sent EXCEPT !.reads = CountUp(@)]
            /\ IF outcome = "failed" THEN
                    /\ streak' = 0
                    /\ UNCHANGED <<rnPc, rnErr, nodeInClusterCount>>
               ELSE IF outcome = "stuck" THEN
                    \* Fatalf ends the process
                    /\ streak' = IF seen.present THEN streak + 1 ELSE 0
                    /\ rnPc' = "exited"
                    /\ UNCHANGED <<rnErr, nodeInClusterCount>>
               ELSE IF outcome = "present" THEN
                    /\ streak' = IF seen.present THEN streak + 1 ELSE 0
                    /\ nodeInClusterCount' = nodeInClusterCount + 1
                    /\ UNCHANGED <<rnPc, rnErr>>
               ELSE
                    /\ streak' = 0
                    /\ rnPc' = "returned"
                    /\ rnErr' = NoErr
                    /\ UNCHANGED nodeInClusterCount
    /\ UNCHANGED <<removeNodes, ejectNodes, allNodes, resolved, rebalanceReq, again>>
    /\ UNCHANGED resolveVars
    /\ UNCHANGED probeVars
    /\ UNCHANGED cacheVars
    /\ UNCHANGED nodesVars
    /\ UNCHANGED raceVars

RemoveNext == RemoveNodesCall \/ RemoveNodesAgain \/ Triggering \/ Polling

-----------------------------------------------------------------------------
(* Ping, healthy and the polling loop of IsReady and Healthy *)

\* interval := time.Tick(1 * time.Second)
TickSeconds == 1
Tick == TickSeconds * Resolution

\* Ping, given the response to its GET (requestUrl, so no 401 handling)
Ping(resp) ==
    IF ~resp.ok THEN <<"transport">>
    ELSE CheckStatusCode(resp, {200})

PingResponses == {TransportFail, Resp(401, Garbage), Resp(500, Garbage), Resp(200, Garbage)}

\* getInfo: the first node flagged ThisNode
getInfo(nodes) ==
    IF \E i \in 1..Len(nodes) : nodes[i].ThisNode
        THEN [info |-> nodes[CHOOSE i \in 1..Len(nodes) :
                                /\ nodes[i].ThisNode
                                /\ \A j \in 1..(i - 1) : ~nodes[j].ThisNode],
              err |-> NoErr]
        ELSE [info |-> Node(EmptyStr, EmptyStr, FALSE, ""), err |-> <<"No node info found">>]

\* a health check that accepts a node that has not joined a cluster
healthyAlone(read) ==
    IF read.err # NoErr THEN read.err
    ELSE IF getInfo(read.nodes).err # NoErr THEN getInfo(read.nodes).err
    ELSE IF getInfo(read.nodes).info.Status # "healthy"
        THEN <<"status of node is not healthy">>
    ELSE NoErr

\* healthy(), given the outcome of its Nodes() call
healthy(read) ==
    IF read.err # NoErr THEN read.err
    ELSE IF Len(read.nodes) < 2 THEN <<"Node hasn't joined the cluster yet">>
    ELSE IF getInfo(read.nodes).err # NoErr THEN getInfo(read.nodes).err
    ELSE IF getInfo(read.nodes).info.Status # "healthy"
        THEN <<"status of node is not healthy">>
    ELSE NoErr

ErrorWaitNodeTimeout == <<"ErrorWaitNodeTimeout">>
ErrorHealthyTimedOut == <<"ErrorHealthyTimedOut">>

TimeoutError(kind) ==
    IF kind = "IsReady" THEN ErrorWaitNodeTimeout ELSE ErrorHealthyTimedOut

ProbeKinds == {"IsReady", "Healthy"}

NoProbe == [ok |-> FALSE, StatusCode |-> -1, body |-> [kind |-> "none"]]

ProbeIdle ==
    /\ pbPc = "idle"
    /\ pbKind = "none"
    /\ timeout = 0
    /\ now = 0
    /\ timer = 0
    /\ nextTick = 0
    /\ tickReady = FALSE
    /\ pbErr = NoErr
    /\ lastProbe = NoProbe
    /\ probeAt = -1

\* IsReady(url, t) or Healthy(t) is called: the ticker is created and the loop
\* reaches its first select, which arms time.After(t)
ProbeCall ==
    /\ pbPc = "idle"
    /\ \E kind \in ProbeKinds, t \in 1..MaxTimeout :
        /\ pbKind' = kind
        /\ timeout' = t
        /\ timer' = t
    /\ pbPc' = "select"
    /\ now' = 0
    /\ nextTick' = Tick
    /\ tickReady' = FALSE
    /\ UNCHANGED <<pbErr, lastProbe, probeAt>>
    /\ UNCHANGED resolveVars
    /\ UNCHANGED removeVars
    /\ UNCHANGED cacheVars
    /\ UNCHANGED nodesVars
    /\ UNCHANGED raceVars

\* the select blocks: neither channel is ready, so time passes
SelectWait ==
    /\ pbPc = "select"
    /\ ~tickReady
    /\ now < timer
    /\ now < MaxNow
    /\ now' = now + 1
    /\ tickReady' = (now + 1 = nextTick)
    /\ nextTick' = IF now + 1 = nextTick THEN nextTick + Tick ELSE nextTick
    /\ UNCHANGED <<pbPc, pbKind, timeout, timer, pbErr, lastProbe, probeAt>>
    /\ UNCHANGED resolveVars
    /\ UNCHANGED removeVars
    /\ UNCHANGED cacheVars
    /\ UNCHANGED nodesVars
    /\ UNCHANGED raceVars

\* case <-time.After(timeout)
SelectTimeout ==
    /\ pbPc = "select"
    /\ now >= timer
    /\ pbPc' = "returned"
    /\ pbErr' = TimeoutError(pbKind)
    /\ UNCHANGED <<pbKind, timeout, now, timer, nextTick, tickReady, lastProbe, probeAt>>
    /\ UNCHANGED resolveVars
    /\ UNCHANGED removeVars
    /\ UNCHANGED cacheVars
    /\ UNCHANGED nodesVars
    /\ UNCHANGED raceVars

\* the ticker after d more time units: a tick that falls due is buffered
\* (one at most), and the ticker is set to its next instant after now + d
TickDue(d) == nextTick <= now + d

TickAfter(d) ==
    IF TickDue(d) THEN nextTick + Tick * (((now + d - nextTick) \div Tick) + 1)
    ELSE nextTick

\* case <-interval: one probe, which takes d time units; a failed probe goes
\* round the loop to a select that arms a new time.After(timeout)
SelectTick ==
    /\ pbPc = "select"
    /\ tickReady
    /\ \E d \in 0..MaxProbeDur :
        /\ now + d <= MaxNow
        /\ now' = now + d
        /\ tickReady' = TickDue(d)
        /\ nextTick' = TickAfter(d)
        /\ timer' = now + d + timeout
    /\ \E resp \in (IF pbKind = "Healthy" THEN NodesResponses ELSE PingResponses) :
        LET err == IF pbKind = "Healthy" THEN healthy(Nodes(resp)) ELSE Ping(resp) IN
        /\ lastProbe' = resp
        /\ IF err = NoErr
              THEN pbPc' = "returned"
              ELSE pbPc' = "select"
    /\ pbErr' = NoErr
    /\ probeAt' = now
    /\ UNCHANGED <<pbKind, timeout>>
    /\ UNCHANGED resolveVars
    /\ UNCHANGED removeVars
    /\ UNCHANGED cacheVars
    /\ UNCHANGED nodesVars
    /\ UNCHANGED raceVars

ProbeNext == ProbeCall \/ SelectWait \/ SelectTimeout \/ SelectTick

-----------------------------------------------------------------------------
(* Cluster and Info: the lazily cached values of a client handle *)

\* a nil pointer; a non-nil pointer is the one-element sequence of its target
Nil == <<>>
Ptr(v) == <<v>>

ClusterValue(uuid, enterprise) ==
    [IsAdminCreds |-> TRUE, IsEnterprise |-> enterprise, UUID |-> uuid]

Clusters == {ClusterValue("u1", FALSE), ClusterValue("u2", TRUE)}

ClusterBody(c) == [kind |-> "cluster", cluster |-> c]

ClusterResponses == FailedResponses \cup {Resp(200, ClusterBody(c)) : c \in Clusters}

\* a Cluster() that reads the remote system on every call
ClusterAlwaysRead(cache, resp) ==
    IF Request(resp) # NoErr \/ CheckStatusCode(resp, {200}) # NoErr
       \/ resp.body.kind # "cluster"
        THEN [cache |-> cache, value |-> Nil, err |-> <<"Error">>, requested |-> TRUE]
        ELSE [cache |-> Ptr(resp.body.cluster), value |-> Ptr(resp.body.cluster),
              err |-> NoErr, requested |-> TRUE]

\* Cluster(): cache is c.cluster before the call, resp answers the GET /pools the
\* call makes if it makes one; the result carries c.cluster after the call
Cluster(cache, resp) ==
    IF cache # Nil
        THEN [cache |-> cache, value |-> cache, err |-> NoErr, requested |-> FALSE]
    ELSE IF Request(resp) # NoErr
        THEN [cache |-> cache, value |-> Nil,
              err |-> <<"Error while connecting">> \o Request(resp), requested |-> TRUE]
    ELSE IF CheckStatusCode(resp, {200}) # NoErr
        THEN [cache |-> cache, value |-> Nil,
              err |-> CheckStatusCode(resp, {200}), requested |-> TRUE]
    ELSE IF resp.body.kind = "unreadable"
        THEN [cache |-> cache, value |-> Nil, err |-> <<"read body">>, requested |-> TRUE]
    ELSE IF resp.body.kind # "cluster"
        THEN [cache |-> cache, value |-> Nil, err |-> <<"json">>, requested |-> TRUE]
    ELSE [cache |-> Ptr(resp.body.cluster), value |-> Ptr(resp.body.cluster),
          err |-> NoErr, requested |-> TRUE]

\* Info(): cache is c.info before the call, resp answers the GET /pools/default
\* of the Nodes() call it makes if it makes one
Info(cache, resp) ==
    IF cache # Nil
        THEN [cache |-> cache, value |-> cache, err |-> NoErr, requested |-> FALSE]
    ELSE IF Nodes(resp).err # NoErr
        THEN [cache |-> cache, value |-> Nil, err |-> Nodes(resp).err, requested |-> TRUE]
    ELSE IF getInfo(Nodes(resp).nodes).err # NoErr
        THEN [cache |-> cache, value |-> Nil,
              err |-> getInfo(Nodes(resp).nodes).err, requested |-> TRUE]
    ELSE [cache |-> Ptr(getInfo(Nodes(resp).nodes).info),
          value |-> Ptr(getInfo(Nodes(resp).nodes).info),
          err |-> NoErr, requested |-> TRUE]

NoCall == [op |-> "none", seq |-> 0, requested |-> FALSE, value |-> Nil, err |-> NoErr]

CacheIdle ==
    /\ cluster = Nil
    /\ info = Nil
    /\ call = NoCall

\* the handle's user calls Cluster()
ClusterCall ==
    /\ \E resp \in ClusterResponses :
        LET r == Cluster(cluster, resp) IN
        /\ cluster' = r.cache
        /\ call' = [op |-> "Cluster", seq |-> 1 - call.seq, requested |-> r.requested,
                    value |-> r.value, err |-> r.err]
    /\ UNCHANGED info
    /\ UNCHANGED resolveVars
    /\ UNCHANGED removeVars
    /\ UNCHANGED probeVars
    /\ UNCHANGED nodesVars
    /\ UNCHANGED raceVars

\* the handle's user calls Info()
InfoCall ==
    /\ \E resp \in NodesResponses :
        LET r == Info(info, resp) IN
        /\ info' = r.cache
        /\ call' = [op |-> "Info", seq |-> 1 - call.seq, requested |-> r.requested,
                    value |-> r.value, err |-> r.err]
    /\ UNCHANGED cluster
    /\ UNCHANGED resolveVars
    /\ UNCHANGED removeVars
    /\ UNCHANGED probeVars
    /\ UNCHANGED nodesVars
    /\ UNCHANGED raceVars

CacheNext == ClusterCall \/ InfoCall

-----------------------------------------------------------------------------
(* One Nodes() call against scripted answers *)

\* the number of answers the remote system has ready
StreamLen == 2

NodesStreams == [1..StreamLen -> NodesResponses]

NodesNotCalled == [out |-> [nodes |-> <<>>, err |-> <<"not run">>], requests |-> 0]

\* a Nodes() that asks again after a transport error
NodesRunRetry(stream) ==
    IF ~stream[1].ok
        THEN [out |-> Nodes(stream[2]), requests |-> 2]
        ELSE [out |-> Nodes(stream[1]), requests |-> 1]

\* Nodes(): its one c.Request call takes the first answer
NodesRun(stream) == [out |-> Nodes(stream[1]), requests |-> 1]

NodesIdle ==
    /\ ndStream = <<>>
    /\ ndOut = NodesNotCalled

\* the answers are drawn, Nodes() has not been called
NodesDraw ==
    /\ ndStream \in NodesStreams
    /\ ndOut = NodesNotCalled

NodesCall ==
    /\ ndStream # <<>>
    /\ ndOut = NodesNotCalled
    /\ ndOut' = NodesRun(ndStream)
    /\ UNCHANGED ndStream
    /\ UNCHANGED resolveVars
    /\ UNCHANGED removeVars
    /\ UNCHANGED probeVars
    /\ UNCHANGED cacheVars
    /\ UNCHANGED raceVars

NodesNext == NodesCall

-----------------------------------------------------------------------------
(* Two goroutines calling Cluster() or Info() on one handle *)

Callers == {1, 2}

NoRet == [value |-> Nil, err |-> NoErr]

\* the field the method caches in
Field(op) == IF op = "Cluster" THEN cluster ELSE info

RaceIdle ==
    /\ gOp = "none"
    /\ gPc = [p \in Callers |-> "idle"]
    /\ gLocal = [p \in Callers |-> Nil]
    /\ gRet = [p \in Callers |-> NoRet]
    /\ gReads = 0

\* both goroutines call the same method of the fresh handle
ConcurrentCalls ==
    /\ gOp = "none"
    /\ \E op \in {"Cluster", "Info"} : gOp' = op
    /\ gPc' = [p \in Callers |-> "check"]
    /\ UNCHANGED <<gLocal, gRet, gReads>>
    /\ UNCHANGED resolveVars
    /\ UNCHANGED removeVars
    /\ UNCHANGED probeVars
    /\ UNCHANGED cacheVars
    /\ UNCHANGED nodesVars

\* if c.cluster == nil / if c.info == nil
CheckField(p) ==
    /\ gPc[p] = "check"
    /\ gPc' = [gPc EXCEPT ![p] = IF Field(gOp) = Nil THEN "read" ELSE "return"]
    /\ UNCHANGED <<gOp, gLocal, gRet, gReads>>
    /\ UNCHANGED resolveVars
    /\ UNCHANGED removeVars
    /\ UNCHANGED probeVars
    /\ UNCHANGED cacheVars
    /\ UNCHANGED nodesVars

\* the body of the if up to the assignment: the remote read and its decoding
ReadRemote(p) ==
    /\ gPc[p] = "read"
    /\ \E resp \in (IF gOp = "Cluster" THEN ClusterResponses ELSE NodesResponses) :
        LET r == IF gOp = "Cluster" THEN Cluster(Nil, resp) ELSE Info(Nil, resp) IN
        IF r.err # NoErr
            THEN /\ gPc' = [gPc EXCEPT ![p] = "done"]
                 /\ gRet' = [gRet EXCEPT ![p] = [value |-> Nil, err |-> r.err]]
                 /\ UNCHANGED gLocal
            ELSE /\ gPc' = [gPc EXCEPT ![p] = "store"]
                 /\ gLocal' = [gLocal EXCEPT ![p] = r.cache]
                 /\ UNCHANGED gRet
    /\ gReads' = gReads + 1
    /\ UNCHANGED gOp
    /\ UNCHANGED resolveVars
    /\ UNCHANGED removeVars
    /\ UNCHANGED probeVars
    /\ UNCHANGED cacheVars
    /\ UNCHANGED nodesVars

\* c.cluster = &cluster / c.info = info
StoreField(p) ==
    /\ gPc[p] = "store"
    /\ IF gOp = "Cluster"
          THEN cluster' = gLocal[p] /\ UNCHANGED info
          ELSE info' = gLocal[p] /\ UNCHANGED cluster
    /\ gPc' = [gPc EXCEPT ![p] = "return"]
    /\ UNCHANGED <<gOp, gLocal, gRet, gReads, call>>
    /\ UNCHANGED resolveVars
    /\ UNCHANGED removeVars
    /\ UNCHANGED probeVars
    /\ UNCHANGED nodesVars

\* return c.cluster, nil / return c.info, nil
ReturnField(p) ==
    /\ gPc[p] = "return"
    /\ gRet' = [gRet EXCEPT ![p] = [value |-> Field(gOp), err |-> NoErr]]
    /\ gPc' = [gPc EXCEPT ![p] = "done"]
    /\ UNCHANGED <<gOp, gLocal, gReads>>
    /\ UNCHANGED resolveVars
    /\ UNCHANGED removeVars
    /\ UNCHANGED probeVars
    /\ UNCHANGED cacheVars
    /\ UNCHANGED nodesVars

Check == \E p \in Callers : CheckField(p)
Read == \E p \in Callers : ReadRemote(p)
Store == \E p \in Callers : StoreField(p)
Return == \E p \in Callers : ReturnField(p)

RaceNext == ConcurrentCalls \/ Check \/ Read \/ Store \/ Return

-----------------------------------------------------------------------------
(* Specifications *)

\* nothing has been called yet
Init == ResolveIdle /\ RemoveIdle /\ ProbeIdle /\ CacheIdle /\ NodesIdle /\ RaceIdle

\* the inputs of the two resolutions are drawn, nothing else is called
InitResolve ==
    ResolveDraw /\ RemoveIdle /\ ProbeIdle /\ CacheIdle /\ NodesIdle /\ RaceIdle

SpecResolve == InitResolve /\ [][ResolveNext]_vars

SpecRemove == Init /\ [][RemoveNext]_vars

\* the loop of RemoveNodes goes on: each iteration sleeps a finite time and
\* each of its requests is answered
SpecRemoveFair == Init /\ [][RemoveNext]_vars /\ WF_vars(Polling)

SpecProbe == Init /\ [][ProbeNext]_vars

SpecCache == Init /\ [][CacheNext]_vars

\* the answers of the remote system are drawn, nothing else is called
InitNodes ==
    ResolveIdle /\ RemoveIdle /\ ProbeIdle /\ CacheIdle /\ NodesDraw /\ RaceIdle

SpecNodes == InitNodes /\ [][NodesNext]_vars

\* goroutines are scheduled in any order; the handle has no lock
SpecRace == Init /\ [][RaceNext]_vars

-----------------------------------------------------------------------------
(* What the claims speak of, stated without the code's helpers *)

\* the part of an address before its first ":" (the whole of it without one)
HostPart(addr) ==
    LET k == CHOOSE n \in 0..Len(addr) :
                /\ \A j \in 1..n : addr[j] # Colon
                /\ n = Len(addr) \/ addr[n + 1] = Colon
    IN  [j \in 1..k |-> addr[j]]

\* the positions of the nodes whose host is the host of some requested address
MatchedIdx(nodes, addrs) ==
    {j \in 1..Len(nodes) :
        \E i \in 1..Len(addrs) : HostPart(addrs[i]) = HostPart(nodes[j].Hostname)}

\* every requested address is the address of some node, ports ignored
AllMatch(nodes, addrs) ==
    \A i \in 1..Len(addrs) :
        \E j \in 1..Len(nodes) : HostPart(addrs[i]) = HostPart(nodes[j].Hostname)

\* the k-th smallest element of a set of positions
Kth(S, k) == CHOOSE j \in S : Cardinality({m \in S : m < j}) = k - 1

\* resolution read a topology in which every node has a handle
ResolutionRead ==
    /\ rnPc # "idle"
    /\ resolved.err = NoErr
    /\ \A j \in 1..Len(resolved.nodes) : resolved.nodes[j].OTPNode # EmptyStr

ReturnedErr(e) == rnPc = "returned" /\ rnErr = e

ReturnedNil == ReturnedErr(NoErr)

-----------------------------------------------------------------------------
(* Claims about RemoveNodes, checked under SpecRemove *)

\* C2: the run turns to stuck removal exactly on the 11th consecutive observation
\* "status reports no ejected handle active, topology still holds one": not
\* before it and not after it.
C2_StuckOnEleventhObservation ==
    /\ rnPc = "exited" => streak = StuckLimit + 1
    /\ streak >= StuckLimit + 1 => rnPc = "exited"

\* C3: whenever RemoveNodes has returned nil, its last status poll succeeded and
\* listed no ejected handle, and its last topology read succeeded and held no
\* ejected handle; a run that detected stuck removal has not returned nil.
C3_SuccessMeansGone ==
    /\ ReturnedNil =>
          /\ rebalanceReq.issued
          /\ iter.statusOk /\ ~iter.active
          /\ iter.readIssued /\ iter.readOk /\ ~iter.present
    /\ rnPc = "exited" => ~ReturnedNil /\ StuckDetected(nodeInClusterCount)

C3_Witness ==
    /\ ReturnedNil
    /\ Len(ejectNodes) >= 1
    /\ nodeInClusterCount >= 1

\* C4: if some requested address matches no node of the topology by host,
\* RemoveNodes returns IncompleteMatch and issues no rebalance trigger.
C4_UnmatchedAddressIsRejected ==
    (ResolutionRead /\ ~AllMatch(resolved.nodes, removeNodes)) =>
        /\ ReturnedErr(IncompleteMatch)
        /\ ~rebalanceReq.issued

\* C5: when every requested address matches some node (ports ignored) the
\* resolution yields as many handles as addresses and IncompleteMatch is not
\* signalled; otherwise IncompleteMatch is signalled.
C5_CountEqualsMatch ==
    ResolutionRead =>
        IF AllMatch(resolved.nodes, removeNodes)
            THEN /\ Len(ejectNodes) = Len(removeNodes)
                 /\ ~ReturnedErr(IncompleteMatch)
            ELSE ReturnedErr(IncompleteMatch)

\* C6: a trigger that is issued carries the handles of every node of the
\* topology read during resolution, in topology order, as knownNodes, the
\* handles of exactly the nodes whose host matches a requested address as
\* ejectedNodes, and every ejected handle is a known handle.
C6_TriggerCarriesResolvedHandles ==
    rebalanceReq.issued =>
        LET nodes == resolved.nodes
            M == MatchedIdx(nodes, removeNodes)
            known == [j \in 1..Len(nodes) |-> nodes[j].OTPNode]
            ejected == [k \in 1..Cardinality(M) |-> nodes[Kth(M, k)].OTPNode]
        IN  /\ resolved.err = NoErr
            /\ rebalanceReq.knownNodes = known
            /\ rebalanceReq.ejectedNodes = ejected
            /\ \A k \in 1..Len(rebalanceReq.ejectedNodes) :
                  \E j \in 1..Len(rebalanceReq.knownNodes) :
                      rebalanceReq.knownNodes[j] = rebalanceReq.ejectedNodes[k]
            /\ rebalanceReq.data = [ejectedNodes |-> Join(ejected),
                                    knownNodes |-> Join(known)]

C6_Witness ==
    /\ rebalanceReq.issued
    /\ Len(rebalanceReq.ejectedNodes) = 1
    /\ Len(rebalanceReq.knownNodes) = 2
    /\ rebalanceReq.ejectedNodes[1] = rebalanceReq.knownNodes[2]

\* the addressed nodes are gone: the call repeats one that returned nil, names
\* at least one address, and no node of the topology it read matches any
RepeatedAfterRemoval ==
    /\ again
    /\ ResolutionRead
    /\ Len(removeNodes) >= 1
    /\ MatchedIdx(resolved.nodes, removeNodes) = {}

\* C8 (as claimed): RemoveNodes invoked again after the removal completed does
\* not return an error caused by the nodes being already removed.
C8_RepeatedRemovalDoesNotFail ==
    RepeatedAfterRemoval => ~ReturnedErr(IncompleteMatch)

\* C8 (amended): RemoveNodes invoked again with a non-empty address list after
\* the removal completed returns IncompleteMatch and issues no trigger.
C8_RepeatedRemovalIsIncompleteMatch ==
    RepeatedAfterRemoval =>
        /\ ReturnedErr(IncompleteMatch)
        /\ ~rebalanceReq.issued

C8_Witness ==
    /\ RepeatedAfterRemoval
    /\ ReturnedErr(IncompleteMatch)
    /\ Len(resolved.nodes) >= 1

-----------------------------------------------------------------------------
(* Claims about GetOTPNodes, checked under SpecResolve *)

\* C7: resolving an address list and resolving it with port suffixes added or
\* stripped give the same ejected handles and the same known handles.
C7_PortInsensitiveResolution ==
    (rsOut # NotRun /\ rsOutVariant # NotRun) =>
        /\ rsOut.outEjectNodes = rsOutVariant.outEjectNodes
        /\ rsOut.outAllNodes = rsOutVariant.outAllNodes
        /\ rsOut.err = rsOutVariant.err

C7_Witness ==
    /\ rsOut # NotRun /\ rsOutVariant # NotRun
    /\ \E i \in 1..Len(rsAddrs) : Len(rsVariant[i]) < Len(rsAddrs[i])
    /\ \E i \in 1..Len(rsAddrs) : Len(rsVariant[i]) > Len(rsAddrs[i])
    /\ Len(rsOut.outEjectNodes) = 2
    /\ rsOut.err = NoErr

-----------------------------------------------------------------------------
(* Claims about IsReady and Healthy, checked under SpecProbe *)

\* C1: when no probe succeeds, the call returns its timeout error once the
\* timeout has elapsed since the call started and never earlier, and it does
\* not keep polling past that deadline: no probe is issued after it and the
\* call is not still waiting after it.
C1_TimeoutAtDeadline ==
    /\ (pbPc = "returned" /\ pbErr = TimeoutError(pbKind)) => now = timeout
    /\ probeAt <= timeout
    /\ pbPc = "select" => now <= timeout

\* C9: Healthy returns nil only on a topology read that succeeded, held at
\* least two members and held a node flagged as this node whose status is
\* "healthy"; after any other read the call has not returned nil.
C9_HealthyOnlyWhenJoinedAndHealthy ==
    (pbKind = "Healthy" /\ pbPc = "returned" /\ pbErr = NoErr) =>
        /\ lastProbe.ok
        /\ lastProbe.StatusCode = 200
        /\ lastProbe.body.kind = "pool"
        /\ Len(lastProbe.body.nodes) >= 2
        /\ \E i \in 1..Len(lastProbe.body.nodes) :
              /\ lastProbe.body.nodes[i].ThisNode
              /\ lastProbe.body.nodes[i].Status = "healthy"

C9_Witness ==
    /\ pbKind = "Healthy" /\ pbPc = "returned" /\ pbErr = NoErr
    /\ probeAt >= 2 * Tick

-----------------------------------------------------------------------------
(* Claims about Cluster and Info, checked under SpecCache *)

\* this step is a call of op
Called(op) == call'.seq # call.seq /\ call'.op = op

\* C10: once a Cluster() (resp. Info()) call has succeeded, every later call
\* of it issues no request and returns the cached value, which no step
\* changes; a call on an empty cache issues a request, and if it fails it
\* leaves the cache empty.
C10_CachedOnceNeverRefetched ==
    [][ /\ cluster # Nil => cluster' = cluster
        /\ info # Nil => info' = info
        /\ (cluster # Nil /\ Called("Cluster")) =>
              ~call'.requested /\ call'.value = cluster /\ call'.err = NoErr
        /\ (info # Nil /\ Called("Info")) =>
              ~call'.requested /\ call'.value = info /\ call'.err = NoErr
        /\ (cluster = Nil /\ Called("Cluster")) =>
              /\ call'.requested
              /\ IF call'.err # NoErr THEN cluster' = Nil
                 ELSE cluster' # Nil /\ cluster' = call'.value
        /\ (info = Nil /\ Called("Info")) =>
              /\ call'.requested
              /\ IF call'.err # NoErr THEN info' = Nil
                 ELSE info' # Nil /\ info' = call'.value
      ]_vars

\* both caches are filled and the last call was answered from a cache
C10_Witness ==
    /\ cluster # Nil
    /\ info # Nil
    /\ call.op = "Info" /\ ~call.requested /\ call.value = info

------------------------------------------------------------------------------
(* Further claims about RemoveNodes, checked under SpecRemove *)

MissingIdentity == <<"Unable to get OTP name">>

\* the topology read of resolution succeeded and holds a node without handle
ResolutionReadLacksHandle ==
    /\ rnPc # "idle"
    /\ resolved.err = NoErr
    /\ \E j \in 1..Len(resolved.nodes) : resolved.nodes[j].OTPNode = EmptyStr

\* C11: if any node of the topology read during resolution has an empty
\* internal handle, RemoveNodes returns MissingIdentity whatever addresses were
\* requested, and has issued neither the rebalance trigger nor a status poll.
C11_MissingHandleAbortsResolution ==
    ResolutionReadLacksHandle =>
        /\ ReturnedErr(MissingIdentity)
        /\ ~rebalanceReq.issued
        /\ sent.triggers = 0
        /\ ~iter.polled

\* the node without handle is not the requested one, and every requested
\* address matches a node that has a handle
C11_Witness ==
    /\ ResolutionReadLacksHandle
    /\ Len(removeNodes) = 1
    /\ \E j \in 1..Len(resolved.nodes) :
        /\ resolved.nodes[j].OTPNode # EmptyStr
        /\ HostPart(resolved.nodes[j].Hostname) = HostPart(removeNodes[1])
    /\ ReturnedErr(MissingIdentity)

------------------------------------------------------------------------------
(* Claims about Nodes, checked under SpecNodes *)

\* the error kinds of a topology read, told apart by the error's text
ConnectionFailed == <<"Error while connecting", "Error while connecting with auth">>
AuthRejected == <<"Error while connecting", "Error authenticating. Check user/password">>
ProtocolErrors == {<<"expected statusCode">>, <<"read body">>, <<"json">>}

NodesCalled == ndOut # NodesNotCalled

\* what the claim says of every answer but a 401
NodesClassified(first, out) ==
    /\ ~first.ok => out.err = ConnectionFailed /\ out.nodes = <<>>
    /\ (first.ok /\ first.StatusCode = 404) =>
            out.err = ErrorNodeUninitialized /\ out.nodes = <<>>
    /\ (first.ok /\ first.StatusCode \notin {200, 401, 404}) =>
            out.err \in ProtocolErrors /\ out.nodes = <<>>
    /\ (first.ok /\ first.StatusCode = 200 /\ first.body.kind # "pool") =>
            out.err \in ProtocolErrors /\ out.nodes = <<>>
    /\ (first.ok /\ first.StatusCode = 200 /\ first.body.kind = "pool") =>
            out.err = NoErr /\ out.nodes = first.body.nodes
    /\ out.err = NoErr => first.ok /\ first.StatusCode = 200 /\ first.body.kind = "pool"

\* C12 (as claimed): Nodes() issues exactly one request and classifies its
\* outcome; an authentication rejection (401), like any other status that is
\* neither 200 nor 404, gives ProtocolError.
C12_AuthRejectionIsProtocolError ==
    NodesCalled =>
        /\ ndOut.requests = 1
        /\ NodesClassified(ndStream[1], ndOut.out)
        /\ (ndStream[1].ok /\ ndStream[1].StatusCode = 401) =>
                ndOut.out.err \in ProtocolErrors

\* C12 (amended): Nodes() issues exactly one request, whatever its answer, and
\* classifies it: a transport error gives ConnectionFailed, a 404 gives
\* Uninitialized, a 401 gives the authentication error wrapped as a connection
\* error, any other non-200 status and an undecodable 200 payload give
\* ProtocolError, and only a 200 with a decodable payload gives its node list.
C12_AuthRejectionIsConnectionError ==
    NodesCalled =>
        /\ ndOut.requests = 1
        /\ NodesClassified(ndStream[1], ndOut.out)
        /\ (ndStream[1].ok /\ ndStream[1].StatusCode = 401) =>
                ndOut.out.err = AuthRejected /\ ndOut.out.nodes = <<>>

\* a 401 was answered, and a retry would have got a node list
C12_Witness ==
    /\ NodesCalled
    /\ ndStream[1].ok /\ ndStream[1].StatusCode = 401
    /\ ndStream[2].ok /\ ndStream[2].StatusCode = 200 /\ ndStream[2].body.kind = "pool"
    /\ ndOut.out.err = AuthRejected

\* the trigger was answered with status 200 / with another status
TriggerAccepted ==
    sent.triggers >= 1 /\ sent.answer.ok /\ sent.answer.StatusCode = 200
TriggerRejected ==
    sent.triggers >= 1 /\ sent.answer.ok /\ sent.answer.StatusCode # 200

UnexpectedStatus == <<"expected statusCode">>
AuthError == <<"Error authenticating. Check user/password">>

\* the order of the remote calls of a run: at most one trigger, after a
\* resolution that succeeded with as many handles as addresses; a status poll
\* only after an accepted trigger; after a rejected trigger the run has
\* returned an error without a status poll or another topology read
CallsInOrder ==
    /\ sent.triggers <= 1
    /\ sent.triggers = 1 =>
        /\ ResolutionRead
        /\ Cardinality(MatchedIdx(resolved.nodes, removeNodes)) = Len(removeNodes)
        /\ rebalanceReq.issued
    /\ iter.polled => TriggerAccepted
    /\ TriggerRejected =>
        /\ rnPc = "returned" /\ rnErr # NoErr
        /\ ~iter.polled
        /\ sent.reads = 1

\* C13 (as claimed): the remote calls of RemoveNodes are ordered Resolving ->
\* Triggering -> Polling, and a rejected trigger makes RemoveNodes return a
\* ProtocolError.
C13_RejectedTriggerIsProtocolError ==
    /\ CallsInOrder
    /\ TriggerRejected => rnErr = UnexpectedStatus

\* C13 (amended): the remote calls of RemoveNodes are ordered Resolving ->
\* Triggering -> Polling, and a rejected trigger makes RemoveNodes return an
\* error at once: the authentication error when the answer is a 401, the
\* ProtocolError for any other status that is not 200.
C13_RejectedTriggerAborts ==
    /\ CallsInOrder
    /\ TriggerRejected =>
        rnErr = IF sent.answer.StatusCode = 401 THEN AuthError ELSE UnexpectedStatus

\* both kinds of rejection are distinguished by the run that saw a 401
C13_Witness ==
    /\ TriggerRejected
    /\ sent.answer.StatusCode = 401
    /\ ReturnedErr(AuthError)
    /\ Len(ejectNodes) >= 1

\* the iteration that just ran met a failed status poll or a failed topology read
IterationFailed(it) == it.polled /\ (~it.statusOk \/ (it.readIssued /\ ~it.readOk))

\* C14: in the polling loop a failed status poll or a failed topology read never
\* makes RemoveNodes return, neither with an error nor with success: the loop
\* stays in polling, with a backoff of at least 500 ms before its next status
\* poll, however many such failures came before.
C14_FailedPollsNeverReturn ==
    [][(rnPc = "polling" /\ IterationFailed(iter')) =>
            /\ rnPc' = "polling"
            /\ rnErr' = NoErr
            /\ sleep' >= StatusBackoff]_vars

\* a topology read failed after a still-present observation, and the loop
\* goes on
C14_Witness ==
    /\ rnPc = "polling"
    /\ iter.polled /\ iter.statusOk /\ iter.readIssued /\ ~iter.readOk
    /\ nodeInClusterCount >= 1
    /\ sleep >= StatusBackoff

------------------------------------------------------------------------------
(* Claims about the termination of RemoveNodes, checked under SpecRemoveFair *)

\* the last iteration, if any, had a successful status poll that listed no
\* ejected handle, and its topology read, if it made one, succeeded
QuietIteration ==
    iter.polled => iter.statusOk /\ ~iter.active /\ (iter.readIssued => iter.readOk)

\* C15: if from some point on every status poll succeeds and reports no ejected
\* handle active and every topology read succeeds, RemoveNodes leaves its
\* polling loop: it returns, or it stops for good on a stuck removal.
C15_QuietPollingTerminates ==
    <>[]QuietIteration => ((rnPc = "polling") ~> (rnPc # "polling"))

------------------------------------------------------------------------------
(* Claims about the polling loop of RemoveNodes, checked under SpecRemove *)

\* durations in milliseconds; a recommended period comes in tenths of a second
TwoSeconds == 2 * 1000
HalfSecond == 500
PeriodMillis(period) == period * 100
Larger(a, b) == IF a >= b THEN a ELSE b

\* C16: in the polling loop the sleep before the next status poll is the
\* larger of the last poll's recommended interval and 2 seconds if that poll
\* succeeded, and 500 ms if it failed; only the first poll follows no sleep.
C16_SleepFollowsLastStatusPoll ==
    rnPc = "polling" =>
        sleep = IF ~iter.polled THEN 0
                ELSE IF iter.statusOk
                    THEN Larger(PeriodMillis(iter.period), TwoSeconds)
                ELSE HalfSecond

\* the loop sleeps the recommended 3 s, longer than the floor
C16_Witness ==
    /\ rnPc = "polling"
    /\ iter.polled /\ iter.statusOk
    /\ PeriodMillis(iter.period) > TwoSeconds
    /\ sleep = PeriodMillis(iter.period)

\* the loop sleeps the floor although the status recommended less
C16_WitnessFloor ==
    /\ rnPc = "polling"
    /\ iter.polled /\ iter.statusOk
    /\ PeriodMillis(iter.period) < TwoSeconds
    /\ sleep = TwoSeconds

\* C17: in an iteration whose status poll succeeds and lists an ejected handle
\* as active, the still-present counter is reset to zero, no topology read is
\* issued and the loop continues; a topology read is issued only in an
\* iteration whose status poll succeeded with no ejected handle active.
C17_ActiveHandleResetsAndSkipsRead ==
    [][rnPc = "polling" =>
        /\ (iter'.statusOk /\ iter'.active) =>
                /\ nodeInClusterCount' = 0
                /\ ~iter'.readIssued
                /\ sent'.reads = sent.reads
                /\ rnPc' = "polling"
        /\ (iter'.readIssued \/ sent'.reads # sent.reads) =>
                /\ iter'.statusOk
                /\ iter'.readIssued
                /\ ~iter'.active]_vars

\* a status poll lists an ejected handle after an earlier iteration had read
\* the topology
C17_Witness ==
    /\ rnPc = "polling"
    /\ iter.statusOk /\ iter.active /\ ~iter.readIssued
    /\ nodeInClusterCount = 0
    /\ sent.reads = 2

------------------------------------------------------------------------------
(* Claims about concurrent callers of Cluster and Info, checked under SpecRace *)

BothReturned == \A p \in Callers : gPc[p] = "done"

\* C18: when two callers invoke Cluster() (or Info()) concurrently on one fresh
\* handle, at most one remote read is issued for the handle and both callers
\* observe the same cached value.
C18_ConcurrentCallersPopulateOnce ==
    /\ gReads <= 1
    /\ BothReturned =>
        \A p, q \in Callers :
            (gRet[p].err = NoErr /\ gRet[q].err = NoErr) =>
                gRet[p].value = gRet[q].value

------------------------------------------------------------------------------
(* Claims about the still-present counter, checked under SpecRemove *)

\* C19: in the polling loop the still-present counter is changed only by an
\* iteration whose status poll succeeded, never by a failed status poll or a
\* failed topology read; it is reset only by an iteration that observed an
\* ejected handle active; and it stays between 0 and 11.
C19_CounterFrame ==
    [][rnPc = "polling" =>
        /\ nodeInClusterCount' \in 0..(StuckLimit + 1)
        /\ IterationFailed(iter') => nodeInClusterCount' = nodeInClusterCount
        /\ nodeInClusterCount' # nodeInClusterCount => iter'.statusOk
        /\ (nodeInClusterCount' = 0 /\ nodeInClusterCount > 0) => iter'.active]_vars

------------------------------------------------------------------------------
(* Claims about RemoveNodes with no address, checked under SpecRemove *)

\* the handles of the topology read by resolution, in its order
ResolvedHandles == [j \in 1..Len(resolved.nodes) |-> resolved.nodes[j].OTPNode]

\* a call with an empty address list whose resolution read a topology in which
\* every node has a handle
EmptyRemoval == ResolutionRead /\ removeNodes = <<>>

\* C20: RemoveNodes called with an empty address list passes the count check,
\* issues the rebalance trigger with an empty eject set and the full known set,
\* and, once the trigger is accepted, returns nil after the first iteration in
\* which both the status poll and the topology read succeed, whatever handles
\* the status reports as rebalancing; it never ends in a stuck removal.
C20_EmptyRemovalSucceedsAtFirstFullPoll ==
    EmptyRemoval =>
        /\ rnErr # IncompleteMatch
        /\ rnPc \in {"triggering", "polling", "returned"}
        /\ rnPc # "triggering" =>
            /\ rebalanceReq.issued
            /\ rebalanceReq.ejectedNodes = <<>>
            /\ rebalanceReq.knownNodes = ResolvedHandles
        /\ (rnPc = "polling" /\ iter.polled) =>
            /\ iter.statusOk => iter.readIssued
            /\ ~(iter.statusOk /\ iter.readOk)
        /\ (rnPc = "returned" /\ TriggerAccepted) =>
            /\ rnErr = NoErr
            /\ iter.statusOk /\ iter.readIssued /\ iter.readOk
            /\ nodeInClusterCount = 0

\* the call returned nil from an iteration whose status listed handles as
\* rebalancing
C20_Witness ==
    /\ EmptyRemoval
    /\ ReturnedNil
    /\ Len(resolved.nodes) >= 2
    /\ iter.listed
    /\ sent.reads = 2

=============================================================================
